---- MODULE Spec2Model ----
(***************************************************************************)
(* A model of two parts of argmin:                                         *)
(*   - the observer pipeline `Observers` of core/observers/mod.rs          *)
(*     (push, observe_init, observe_iter, ObserverMode), sequentially      *)
(*     (Spec) and with two threads holding clones (SpecConc);              *)
(*   - the solver `SimulatedAnnealing` of solver/simulatedannealing/mod.rs *)
(*     (new, the builders, init, next_iter, terminate) (SpecSA), and in    *)
(*     longer runs under reannealing_fixed (SpecSALong).                   *)
(***************************************************************************)
EXTENDS Integers, Sequences, FiniteSets, TLC

VARIABLES
    observers,  \* Observers.observers: the Vec of (observer, mode), in Vec order
    stor,       \* per observer object: what its callbacks recorded (TestStor)
    state,      \* the driver's state handed to observe_iter: get_iter(), is_best()
    ret,        \* the last call on the pipeline and what it returned
    trace,      \* the observer objects that call invoked, in the order of the calls
    ihist,      \* history: every observe_iter call made on the pipeline
    inits,      \* history: every observe_init call made on the pipeline
    thr,        \* per thread holding a clone of the pipeline: where its dispatch is
    holder,     \* per observer object: the thread holding its Mutex (0: unlocked)
    poisoned,   \* the observer objects whose Mutex is poisoned
    sa,         \* the SimulatedAnnealing struct
    saphase,    \* where the solver's run is: start, built, invalid, running, aborted
    nbuilt,     \* the builder methods called on the solver so far
    sastate,    \* the driver's IterState: param, cost, best_cost
    counts,     \* Problem.counts: cost_count, anneal_count
    saret,      \* the last call on the solver and what it returned
    sarun       \* history: the successful next_iter calls of the run

obsVars == <<observers, stor, state, ret, trace, ihist, inits>>

concVars == <<thr, holder, poisoned>>

saVars == <<sa, saphase, nbuilt, sastate, counts, saret, sarun>>

vars == <<obsVars, concVars, saVars>>

\* ------------------------------------------------------------------ bounds

MaxObs == 2
MaxIterCalls == 3
MaxInitCalls == 1
MaxBuilderCalls == 2
MaxSteps == 3
MaxLongSteps == 6

\* ------------------------------------------------------- ObserverMode (enum)

Never == [kind |-> "Never", n |-> 0]

Always == [kind |-> "Always", n |-> 0]

NewBest == [kind |-> "NewBest", n |-> 0]

Every(i) == [kind |-> "Every", n |-> i]

EveryArgs == {0, 2}

ObserverMode == {Never, Always, NewBest} \cup {Every(i) : i \in EveryArgs}

SolverNames == {"test_solver", "Simulated Annealing"}

\* TestStor::new
NewStor == [solver_name |-> "", init_called |-> 0, iter_called |-> 0]

\* --------------------------------------------------------- observer callbacks

\* An observer's observe_init: it records the name and the call (TestObs).
CallInit(s, name) == [s EXCEPT !.solver_name = name, !.init_called = @ + 1]

\* An observer's observe_iter: it records the call (TestObs).
CallIter(s) == [s EXCEPT !.iter_called = @ + 1]

\* ------------------------------------------------------------ Observers::push

PushPrepend(obs, mode) == <<[id |-> Len(obs) + 1, mode |-> mode]>> \o obs

\* self.observers.push((Arc::new(Mutex::new(observer)), mode)); the id names the
\* new observer object: the ordinal of its push.
PushVec(obs, mode) == Append(obs, [id |-> Len(obs) + 1, mode |-> mode])

\* ------------------------------------------------- Observers::observe_init

RECURSIVE InitLoopSkipsNever(_, _, _)
InitLoopSkipsNever(obs, err, k) ==
    IF k > Len(obs) THEN [calls |-> <<>>, val |-> "Ok"]
    ELSE IF obs[k].mode.kind = "Never" THEN InitLoopSkipsNever(obs, err, k + 1)
    ELSE IF err = k THEN [calls |-> <<obs[k].id>>, val |-> "Err"]
    ELSE LET r == InitLoopSkipsNever(obs, err, k + 1)
         IN  [calls |-> <<obs[k].id>> \o r.calls, val |-> r.val]

\* for l in self.observers.iter() { l.0.lock().unwrap().observe_init(name, kv)? }
\* from element k on. err is the position whose callback returns Err (0: none).
RECURSIVE InitLoop(_, _, _)
InitLoop(obs, err, k) ==
    IF k > Len(obs) THEN [calls |-> <<>>, val |-> "Ok"]
    ELSE IF err = k THEN [calls |-> <<obs[k].id>>, val |-> "Err"]
    ELSE LET r == InitLoop(obs, err, k + 1)
         IN  [calls |-> <<obs[k].id>> \o r.calls, val |-> r.val]

\* ------------------------------------------------- Observers::observe_iter

GateAlwaysAfterFirst(mode, st) ==
    CASE mode.kind = "Always" -> IF st.iter > 0 THEN "call" ELSE "skip"
      [] mode.kind = "Every" ->
            IF mode.n = 0 THEN "panic"
            ELSE IF st.iter % mode.n = 0 THEN "call" ELSE "skip"
      [] mode.kind = "NewBest" -> IF st.best THEN "call" ELSE "skip"
      [] OTHER -> "skip"

GateEveryOffByOne(mode, st) ==
    CASE mode.kind = "Always" -> "call"
      [] mode.kind = "Every" ->
            IF mode.n = 0 THEN "panic"
            ELSE IF (st.iter + 1) % mode.n = 0 THEN "call" ELSE "skip"
      [] mode.kind = "NewBest" -> IF st.best THEN "call" ELSE "skip"
      [] OTHER -> "skip"

GateNewBestNotFirst(mode, st) ==
    CASE mode.kind = "Always" -> "call"
      [] mode.kind = "Every" ->
            IF mode.n = 0 THEN "panic"
            ELSE IF st.iter % mode.n = 0 THEN "call" ELSE "skip"
      [] mode.kind = "NewBest" -> IF st.best /\ st.iter > 0 THEN "call" ELSE "skip"
      [] OTHER -> "skip"

\* match l.1 { Always => call, Every(i) if iter % i == 0 => call,
\*             NewBest if state.is_best() => call, Never | Every(_) | NewBest => Ok(()) }
\* iter % 0 panics (u64 remainder by zero).
Gate(mode, st) ==
    CASE mode.kind = "Always" -> "call"
      [] mode.kind = "Every" ->
            IF mode.n = 0 THEN "panic"
            ELSE IF st.iter % mode.n = 0 THEN "call" ELSE "skip"
      [] mode.kind = "NewBest" -> IF st.best THEN "call" ELSE "skip"
      [] OTHER -> "skip"

RECURSIVE IterLoopNoStop(_, _, _, _)
IterLoopNoStop(obs, st, err, k) ==
    IF k > Len(obs) THEN [calls |-> <<>>, val |-> "Ok"]
    ELSE LET g == Gate(obs[k].mode, st)
             r == IterLoopNoStop(obs, st, err, k + 1)
         IN  IF g = "panic" THEN [calls |-> <<>>, val |-> "panic"]
             ELSE IF g = "call"
             THEN [calls |-> <<obs[k].id>> \o r.calls,
                   val |-> IF err = k /\ r.val = "Ok" THEN "Err" ELSE r.val]
             ELSE r

\* for l in self.observers.iter_mut() { lock; match l.1 {...}? } from element k on.
\* err is the position whose callback returns Err when invoked (0: none).
RECURSIVE IterLoop(_, _, _, _)
IterLoop(obs, st, err, k) ==
    IF k > Len(obs) THEN [calls |-> <<>>, val |-> "Ok"]
    ELSE LET g == Gate(obs[k].mode, st)
         IN  IF g = "panic" THEN [calls |-> <<>>, val |-> "panic"]
             ELSE IF g = "call"
             THEN IF err = k THEN [calls |-> <<obs[k].id>>, val |-> "Err"]
                  ELSE LET r == IterLoop(obs, st, err, k + 1)
                       IN  [calls |-> <<obs[k].id>> \o r.calls, val |-> r.val]
             ELSE IterLoop(obs, st, err, k + 1)

\* The ids in a sequence of calls, as a set.
Called(calls) == {calls[c] : c \in 1..Len(calls)}

\* ------------------------------------------------------------------- actions

\* Observers::new(), and the driver's fresh state.
ObsInit ==
    /\ observers = <<>>
    /\ stor = <<>>
    /\ state \in {[iter |-> 0, best |-> b] : b \in BOOLEAN}
    /\ ret = [op |-> "new", val |-> "Ok"]
    /\ trace = <<>>
    /\ ihist = <<>>
    /\ inits = <<>>

\* A panic unwinds the driver: it makes no further call.
Running == ret.val # "panic"

\* The pipeline is built before it is used (obs.push(..).push(..), then the calls).
Building == ihist = <<>> /\ inits = <<>>

Push(mode) ==
    /\ Running
    /\ Len(observers) < MaxObs
    /\ Building
    /\ observers' = PushVec(observers, mode)
    /\ stor' = Append(stor, NewStor)
    /\ UNCHANGED <<state, ret, trace, ihist, inits, concVars, saVars>>

ObserveInit(name, err) ==
    /\ Running
    /\ Len(inits) < MaxInitCalls
    /\ LET r == InitLoop(observers, err, 1)
       IN  /\ err = 0 \/ r.val = "Err"
           /\ stor' = [i \in 1..Len(stor) |->
                         IF i \in Called(r.calls) THEN CallInit(stor[i], name)
                         ELSE stor[i]]
           /\ ret' = [op |-> "observe_init", val |-> r.val]
           /\ trace' = r.calls
           /\ inits' = Append(inits, [name |-> name, err |-> err])
    /\ UNCHANGED <<observers, state, ihist, concVars, saVars>>

\* The driver dispatches a state at most once.
Fresh == IF ihist = <<>> THEN TRUE ELSE ihist[Len(ihist)].st.iter < state.iter

ObserveIter(err) ==
    /\ Running
    /\ Fresh
    /\ Len(ihist) < MaxIterCalls
    /\ LET r == IterLoop(observers, state, err, 1)
       IN  /\ err = 0 \/ r.val = "Err"
           /\ stor' = [i \in 1..Len(stor) |->
                         IF i \in Called(r.calls) THEN CallIter(stor[i]) ELSE stor[i]]
           /\ ret' = [op |-> "observe_iter", val |-> r.val]
           /\ trace' = r.calls
           /\ ihist' = Append(ihist, [st |-> state, err |-> err])
    /\ UNCHANGED <<observers, state, inits, concVars, saVars>>

\* The driver's next state: state.increment_iter(), with or without a new best.
IncrementIter(best) ==
    /\ Running
    /\ state.iter < MaxIterCalls
    /\ state' = [iter |-> state.iter + 1, best |-> best]
    /\ UNCHANGED <<observers, stor, ret, trace, ihist, inits, concVars, saVars>>

\* The driver of the iterations: it builds the pipeline and dispatches one state
\* after the other.
ObsNext ==
    \/ \E mode \in ObserverMode : Push(mode)
    \/ \E err \in 0..MaxObs : ObserveIter(err)
    \/ \E best \in BOOLEAN : IncrementIter(best)

\* The driver at the start of a run: it builds the pipeline, announces the solver
\* and dispatches the initial state.
ObsInitNext ==
    \/ \E mode \in ObserverMode : Push(mode)
    \/ \E name \in SolverNames, err \in 0..MaxObs : ObserveInit(name, err)
    \/ \E err \in 0..MaxObs : ObserveIter(err)

\* --------------------------------------------------------- floats (F)

RECURSIVE Gcd(_, _)
Gcd(a, b) == IF b = 0 THEN a ELSE Gcd(b, a % b)

Abs(n) == IF n < 0 THEN -n ELSE n

\* The float n / d (d > 0), in lowest terms.
Rat(n, d) ==
    LET g == Gcd(Abs(n), d)
    IN  [kind |-> "rat", num |-> n \div g, den |-> d \div g, k |-> 0]

\* F::from_u64(n), F::from_f64(n.0)
F(n) == Rat(n, 1)

\* F::infinity(): x / 0.0 for x > 0, and the cost of a fresh IterState.
Inf == [kind |-> "inf", num |-> 1, den |-> 0, k |-> 0]

\* a < b and a <= b on the rationals and +inf.
FLt(a, b) ==
    IF a.kind = "inf" THEN FALSE
    ELSE IF b.kind = "inf" THEN TRUE
    ELSE a.num * b.den < b.num * a.den

FLe(a, b) ==
    IF b.kind = "inf" THEN TRUE
    ELSE IF a.kind = "inf" THEN FALSE
    ELSE a.num * b.den <= b.num * a.den

\* a / F::from_u64(n), n >= 1
FDivInt(a, n) == Rat(a.num, a.den * n)

FMul(a, b) == Rat(a.num * b.num, a.den * b.den)

\* x.powf(F::from_u64(n))
RECURSIVE FPow(_, _)
FPow(x, n) == IF n = 0 THEN F(1) ELSE FMul(x, FPow(x, n - 1))

\* a / F::from_u64(n).ln(): ln(1) = 0 gives +inf for a > 0; the value is kept as
\* the quotient it is for n >= 2.
FDivLn(a, n) ==
    IF n = 1 THEN Inf ELSE [kind |-> "over_ln", num |-> a.num, den |-> a.den, k |-> n]

\* --------------------------------------------------------- SimulatedAnnealing

\* std::u64::MAX. It stands for 2^64 - 1, which is beyond TLC's integers; no
\* counter of the model comes near either value.
U64_MAX == 2147483647

TemperatureFast == [kind |-> "TemperatureFast", x |-> F(0)]

Boltzmann == [kind |-> "Boltzmann", x |-> F(0)]

Exponential(x) == [kind |-> "Exponential", x |-> x]

SATempFunc == {TemperatureFast, Boltzmann, Exponential(Rat(1, 2)), Exponential(F(1))}

\* The init_temp values new() is called with.
InitTemps == {F(-1), F(0), F(10)}

\* The arguments the limit builders are called with.
LimitArgs == {0, 1, 2}

\* The parameter vectors; the cost of the parameter vector p is F(p).
Params == {0, 1}

Cost(p) == F(p)

\* The samples of the RNG: u = 0.0, and a u >= 0.5.
Samples == {"zero", "high"}

\* The struct before new() has returned one.
NoSolver ==
    [init_temp |-> F(0), temp_func |-> TemperatureFast, temp_iter |-> 0,
     stall_iter_accepted |-> 0, stall_iter_accepted_limit |-> 0,
     stall_iter_best |-> 0, stall_iter_best_limit |-> 0,
     reanneal_fixed |-> 0, reanneal_iter_fixed |-> 0,
     reanneal_accepted |-> 0, reanneal_iter_accepted |-> 0,
     reanneal_best |-> 0, reanneal_iter_best |-> 0,
     cur_temp |-> F(0), rng |-> 0]

NoKV == [none |-> TRUE]

InvalidInitTempStrict(init_temp) == FLt(init_temp, F(0))

\* if init_temp <= F::from_f64(0.0).unwrap()
InvalidInitTemp(init_temp) == FLe(init_temp, F(0))

\* Ok(SimulatedAnnealing { .. }); rng counts the samples drawn from the RNG.
NewSolver(init_temp) ==
    [init_temp |-> init_temp, temp_func |-> TemperatureFast, temp_iter |-> 0,
     stall_iter_accepted |-> 0, stall_iter_accepted_limit |-> U64_MAX,
     stall_iter_best |-> 0, stall_iter_best_limit |-> U64_MAX,
     reanneal_fixed |-> U64_MAX, reanneal_iter_fixed |-> 0,
     reanneal_accepted |-> U64_MAX, reanneal_iter_accepted |-> 0,
     reanneal_best |-> U64_MAX, reanneal_iter_best |-> 0,
     cur_temp |-> init_temp, rng |-> 0]

UpdateTemperatureKeepsReset(s) ==
    [s EXCEPT !.cur_temp =
        CASE s.temp_iter = 1 -> s.init_temp
          [] s.temp_func.kind = "TemperatureFast" -> FDivInt(s.init_temp, s.temp_iter + 1)
          [] s.temp_func.kind = "Boltzmann" -> FDivLn(s.init_temp, s.temp_iter + 1)
          [] s.temp_func.kind = "Exponential" ->
                FMul(s.init_temp, FPow(s.temp_func.x, s.temp_iter + 1))]

UpdateTemperatureStale(s) ==
    [s EXCEPT !.cur_temp =
        CASE s.temp_func.kind = "TemperatureFast" -> FDivInt(s.init_temp, s.temp_iter)
          [] s.temp_func.kind = "Boltzmann" -> FDivLn(s.init_temp, s.temp_iter)
          [] s.temp_func.kind = "Exponential" ->
                FMul(s.init_temp, FPow(s.temp_func.x, s.temp_iter))]

\* fn update_temperature(&mut self)
UpdateTemperature(s) ==
    [s EXCEPT !.cur_temp =
        CASE s.temp_func.kind = "TemperatureFast" -> FDivInt(s.init_temp, s.temp_iter + 1)
          [] s.temp_func.kind = "Boltzmann" -> FDivLn(s.init_temp, s.temp_iter + 1)
          [] s.temp_func.kind = "Exponential" ->
                FMul(s.init_temp, FPow(s.temp_func.x, s.temp_iter + 1))]

ReannealKeepsFixed(s) ==
    LET out == <<s.reanneal_iter_fixed >= s.reanneal_fixed,
                 s.reanneal_iter_accepted >= s.reanneal_accepted,
                 s.reanneal_iter_best >= s.reanneal_best>>
    IN  [sa |-> IF out[1] \/ out[2] \/ out[3]
                THEN [s EXCEPT !.reanneal_iter_accepted = 0,
                               !.reanneal_iter_best = 0,
                               !.cur_temp = s.init_temp,
                               !.temp_iter = 0]
                ELSE s,
         out |-> out]

ReannealWhenAll(s) ==
    LET out == <<s.reanneal_iter_fixed >= s.reanneal_fixed,
                 s.reanneal_iter_accepted >= s.reanneal_accepted,
                 s.reanneal_iter_best >= s.reanneal_best>>
    IN  [sa |-> IF out[1] /\ out[2] /\ out[3]
                THEN [s EXCEPT !.reanneal_iter_fixed = 0,
                               !.reanneal_iter_accepted = 0,
                               !.reanneal_iter_best = 0,
                               !.cur_temp = s.init_temp,
                               !.temp_iter = 0]
                ELSE s,
         out |-> out]

ReannealStrict(s) ==
    LET out == <<s.reanneal_iter_fixed > s.reanneal_fixed,
                 s.reanneal_iter_accepted > s.reanneal_accepted,
                 s.reanneal_iter_best > s.reanneal_best>>
    IN  [sa |-> IF out[1] \/ out[2] \/ out[3]
                THEN [s EXCEPT !.reanneal_iter_fixed = 0,
                               !.reanneal_iter_accepted = 0,
                               !.reanneal_iter_best = 0,
                               !.cur_temp = s.init_temp,
                               !.temp_iter = 0]
                ELSE s,
         out |-> out]

ReannealResetsStall(s) ==
    LET out == <<s.reanneal_iter_fixed >= s.reanneal_fixed,
                 s.reanneal_iter_accepted >= s.reanneal_accepted,
                 s.reanneal_iter_best >= s.reanneal_best>>
    IN  [sa |-> IF out[1] \/ out[2] \/ out[3]
                THEN [s EXCEPT !.reanneal_iter_fixed = 0,
                               !.reanneal_iter_accepted = 0,
                               !.reanneal_iter_best = 0,
                               !.stall_iter_accepted = 0,
                               !.stall_iter_best = 0,
                               !.cur_temp = s.init_temp,
                               !.temp_iter = 0]
                ELSE s,
         out |-> out]

\* fn reanneal(&mut self) -> (bool, bool, bool)
Reanneal(s) ==
    LET out == <<s.reanneal_iter_fixed >= s.reanneal_fixed,
                 s.reanneal_iter_accepted >= s.reanneal_accepted,
                 s.reanneal_iter_best >= s.reanneal_best>>
    IN  [sa |-> IF out[1] \/ out[2] \/ out[3]
                THEN [s EXCEPT !.reanneal_iter_fixed = 0,
                               !.reanneal_iter_accepted = 0,
                               !.reanneal_iter_best = 0,
                               !.cur_temp = s.init_temp,
                               !.temp_iter = 0]
                ELSE s,
         out |-> out]

UpdateStallSwapped(s, accepted, new_best) ==
    [s EXCEPT !.stall_iter_accepted = IF new_best THEN 0 ELSE @ + 1,
              !.reanneal_iter_accepted = IF new_best THEN 0 ELSE @ + 1,
              !.stall_iter_best = IF accepted THEN 0 ELSE @ + 1,
              !.reanneal_iter_best = IF accepted THEN 0 ELSE @ + 1]

UpdateStallBestStuck(s, accepted, new_best) ==
    [s EXCEPT !.stall_iter_accepted = IF accepted THEN 0 ELSE @ + 1,
              !.reanneal_iter_accepted = IF accepted THEN 0 ELSE @ + 1,
              !.stall_iter_best = IF new_best THEN 0 ELSE @,
              !.reanneal_iter_best = IF new_best THEN 0 ELSE @ + 1]

\* fn update_stall_and_reanneal_iter(&mut self, accepted: bool, new_best: bool)
UpdateStallAndReannealIter(s, accepted, new_best) ==
    [s EXCEPT !.stall_iter_accepted = IF accepted THEN 0 ELSE @ + 1,
              !.reanneal_iter_accepted = IF accepted THEN 0 ELSE @ + 1,
              !.stall_iter_best = IF new_best THEN 0 ELSE @ + 1,
              !.reanneal_iter_best = IF new_best THEN 0 ELSE @ + 1]

\* 1 / (1 + exp((new_cost - prev_cost) / cur_temp)) > prob, where it is evaluated
\* to decide (new_cost >= prev_cost): the quotient is >= 0, the left side lies in
\* (0, 0.5], which is above the sample 0.0 and not above a sample >= 0.5.
Metropolis(new_cost, prev_cost, cur_temp, u) == u = "zero"

\* state.param(p).cost(c): the setters of IterState write these two fields.
SetParamCost(st, p, c) == [st EXCEPT !.param = p, !.cost = c]

AcceptedByChance(new_cost, prev_cost, cur_temp, u) ==
    Metropolis(new_cost, prev_cost, cur_temp, u)

\* let accepted = (new_cost < prev_cost) || (1 / (1 + exp(..)) > prob)
Accepted(new_cost, prev_cost, cur_temp, u) ==
    FLt(new_cost, prev_cost) \/ Metropolis(new_cost, prev_cost, cur_temp, u)

DrawNothing(s) == s

\* let prob: f64 = self.rng.gen(): one sample is taken from the RNG.
Draw(s) == [s EXCEPT !.rng = @ + 1]

\* The body of next_iter after the two evaluations: the solver it leaves, the
\* state and the KV it returns.
NextIterOk(s, st, new_param, u) ==
    LET prev_param == st.param
        prev_cost == st.cost
        new_cost == Cost(new_param)
        drawn == Draw(s)
        accepted == Accepted(new_cost, prev_cost, s.cur_temp, u)
        new_best_found == FLt(new_cost, st.best_cost)
        s1 == UpdateStallAndReannealIter(drawn, accepted, new_best_found)
        r == Reanneal(s1)
        s2 == [r.sa EXCEPT !.temp_iter = @ + 1, !.reanneal_iter_fixed = @ + 1]
        s3 == UpdateTemperature(s2)
    IN  [sa |-> s3,
         state |-> IF accepted
                   THEN SetParamCost(st, new_param, new_cost)
                   ELSE SetParamCost(st, prev_param, prev_cost),
         kv |-> [t |-> s3.cur_temp, new_be |-> new_best_found, acc |-> accepted,
                 st_i_be |-> s3.stall_iter_best, st_i_ac |-> s3.stall_iter_accepted,
                 ra_i_fi |-> s3.reanneal_iter_fixed, ra_i_be |-> s3.reanneal_iter_best,
                 ra_i_ac |-> s3.reanneal_iter_accepted,
                 ra_fi |-> r.out[1], ra_be |-> r.out[3], ra_ac |-> r.out[2]]]

TerminateBestFirst(s) ==
    IF s.stall_iter_best > s.stall_iter_best_limit THEN "BestStallIterExceeded"
    ELSE IF s.stall_iter_accepted > s.stall_iter_accepted_limit
    THEN "AcceptedStallIterExceeded"
    ELSE "NotTerminated"

\* fn terminate(&mut self, _state) -> TerminationReason
TerminateReason(s) ==
    IF s.stall_iter_accepted > s.stall_iter_accepted_limit THEN "AcceptedStallIterExceeded"
    ELSE IF s.stall_iter_best > s.stall_iter_best_limit THEN "BestStallIterExceeded"
    ELSE "NotTerminated"

\* The driver's state.update() after init and after every iteration: best_cost is
\* the least cost seen, last_best_iter the iteration that gave it.
StateUpdate(st) ==
    IF FLt(st.cost, st.best_cost)
    THEN [st EXCEPT !.best_cost = st.cost, !.last_best_iter = st.iter]
    ELSE st

\* The driver after an iteration: state.update(), then state.increment_iter().
Advance(st) == [StateUpdate(st) EXCEPT !.iter = @ + 1]

ProblemCallIfOk(c, name, ok) == IF ok THEN [c EXCEPT ![name] = @ + 1] ELSE c

\* Problem::problem(name, ..): the counter is incremented, whatever the wrapped
\* operation returns.
ProblemCall(c, name, ok) == [c EXCEPT ![name] = @ + 1]

\* No solver is in use (the specifications of the observers).
SAIdle ==
    /\ sa = NoSolver
    /\ saphase = "start"
    /\ nbuilt = 0
    /\ sastate = [param |-> 0, cost |-> Inf, best_cost |-> Inf, iter |-> 0,
                  last_best_iter |-> 0]
    /\ counts = [cost_count |-> 0, anneal_count |-> 0]
    /\ saret = [op |-> "none", val |-> "Ok", arg |-> F(0), cand |-> 0,
                state |-> sastate, kv |-> NoKV]
    /\ sarun = [n |-> 0, nacc |-> 0, nre |-> 0]

\* What a call on the solver leaves alone.
SAFrame == UNCHANGED <<obsVars, concVars>>

\* SimulatedAnnealing::new(init_temp, rng)
New(init_temp) ==
    /\ saphase = "start"
    /\ IF InvalidInitTemp(init_temp)
       THEN /\ saphase' = "invalid"
            /\ saret' = [saret EXCEPT !.op = "new", !.val = "InvalidParameter",
                                      !.arg = init_temp]
            /\ UNCHANGED sa
       ELSE /\ saphase' = "built"
            /\ sa' = NewSolver(init_temp)
            /\ saret' = [saret EXCEPT !.op = "new", !.val = "Ok", !.arg = init_temp]
    /\ UNCHANGED <<nbuilt, sastate, counts, sarun>>
    /\ SAFrame

\* A builder method: it sets one field and returns the solver.
Builder(field, value) ==
    /\ saphase = "built"
    /\ nbuilt < MaxBuilderCalls
    /\ sa' = [sa EXCEPT ![field] = value]
    /\ nbuilt' = nbuilt + 1
    /\ saret' = [saret EXCEPT !.op = field, !.val = "Ok"]
    /\ UNCHANGED <<saphase, sastate, counts, sarun>>
    /\ SAFrame

\* pub fn temp_func(mut self, temperature_func)
TempFunc(f) == Builder("temp_func", f)

\* pub fn stall_accepted(mut self, iter)
StallAccepted(n) == Builder("stall_iter_accepted_limit", n)

\* pub fn stall_best(mut self, iter)
StallBest(n) == Builder("stall_iter_best_limit", n)

\* pub fn reannealing_fixed(mut self, iter)
ReannealingFixed(n) == Builder("reanneal_fixed", n)

\* pub fn reannealing_accepted(mut self, iter)
ReannealingAccepted(n) == Builder("reanneal_accepted", n)

\* pub fn reannealing_best(mut self, iter)
ReannealingBest(n) == Builder("reanneal_best", n)

\* Solver::init on a fresh state holding the parameter vector param: the cost is
\* evaluated (cost_count), or the evaluation fails and `?` returns its error.
SolverInit(param, ok) ==
    /\ saphase = "built"
    /\ counts' = ProblemCall(counts, "cost_count", ok)
    /\ IF ok
       THEN LET out == SetParamCost(sastate, param, Cost(param))
            IN  /\ saphase' = "running"
                /\ sastate' = StateUpdate(out)
                /\ saret' = [op |-> "init", val |-> "Ok", arg |-> saret.arg,
                             cand |-> saret.cand, state |-> out,
                             kv |-> [initial_temperature |-> sa.init_temp,
                                     stall_iter_accepted_limit |-> sa.stall_iter_accepted_limit,
                                     stall_iter_best_limit |-> sa.stall_iter_best_limit,
                                     reanneal_fixed |-> sa.reanneal_fixed,
                                     reanneal_accepted |-> sa.reanneal_accepted,
                                     reanneal_best |-> sa.reanneal_best]]
       ELSE /\ saphase' = "aborted"
            /\ saret' = [saret EXCEPT !.op = "init", !.val = "CostError"]
            /\ UNCHANGED sastate
    /\ UNCHANGED <<sa, nbuilt, sarun>>
    /\ SAFrame

\* next_iter in which problem.anneal(&prev_param, self.cur_temp) returns an
\* error: `?` returns it.
AnnealFails ==
    /\ saphase = "running"
    /\ counts' = ProblemCall(counts, "anneal_count", FALSE)
    /\ saphase' = "aborted"
    /\ saret' = [saret EXCEPT !.op = "next_iter", !.val = "AnnealError",
                              !.arg = sa.cur_temp]
    /\ UNCHANGED <<sa, nbuilt, sastate, sarun>>
    /\ SAFrame

NextIterAnnealErr == counts.anneal_count < MaxSteps /\ AnnealFails

CostFailsAfterDraw ==
    /\ saphase = "running"
    /\ counts' = ProblemCall(ProblemCall(counts, "anneal_count", TRUE), "cost_count", FALSE)
    /\ saphase' = "aborted"
    /\ saret' = [saret EXCEPT !.op = "next_iter", !.val = "CostError",
                              !.arg = sa.cur_temp]
    /\ sa' = Draw(sa)
    /\ UNCHANGED <<nbuilt, sastate, sarun>>
    /\ SAFrame

\* next_iter in which problem.cost(&new_param) returns an error: `?` returns it.
CostFails ==
    /\ saphase = "running"
    /\ counts' = ProblemCall(ProblemCall(counts, "anneal_count", TRUE), "cost_count", FALSE)
    /\ saphase' = "aborted"
    /\ saret' = [saret EXCEPT !.op = "next_iter", !.val = "CostError",
                              !.arg = sa.cur_temp]
    /\ UNCHANGED <<sa, nbuilt, sastate, sarun>>
    /\ SAFrame

NextIterCostErr == counts.anneal_count < MaxSteps /\ CostFails

\* next_iter in which anneal, handed cur_temp, returns new_param, its cost is
\* evaluated and the RNG gives the sample u; the driver keeps the returned state.
Iterate(new_param, u) ==
    /\ saphase = "running"
    /\ LET r == NextIterOk(sa, sastate, new_param, u)
       IN  /\ sa' = r.sa
           /\ sastate' = Advance(r.state)
           /\ saret' = [op |-> "next_iter", val |-> "Ok", arg |-> sa.cur_temp,
                        cand |-> new_param, state |-> r.state, kv |-> r.kv]
           /\ sarun' = [n |-> sarun.n + 1,
                        nacc |-> sarun.nacc + (IF r.kv.acc THEN 1 ELSE 0),
                        nre |-> sarun.nre
                                + (IF r.kv.ra_fi \/ r.kv.ra_ac \/ r.kv.ra_be THEN 1 ELSE 0)]
    /\ counts' = ProblemCall(ProblemCall(counts, "anneal_count", TRUE), "cost_count", TRUE)
    /\ UNCHANGED <<saphase, nbuilt>>
    /\ SAFrame

NextIter(new_param, u) == counts.anneal_count < MaxSteps /\ Iterate(new_param, u)

\* The same call in the longer runs of SpecSALong.
NextIterLong(new_param, u) == counts.anneal_count < MaxLongSteps /\ Iterate(new_param, u)

TerminateResetting ==
    /\ saphase \in {"running", "aborted"}
    /\ saret' = [saret EXCEPT !.op = "terminate", !.val = TerminateReason(sa)]
    /\ sa' = [sa EXCEPT !.stall_iter_accepted = 0, !.stall_iter_best = 0]
    /\ UNCHANGED <<saphase, nbuilt, sastate, counts, sarun>>
    /\ SAFrame

\* Solver::terminate
Terminate ==
    /\ saphase \in {"running", "aborted"}
    /\ saret' = [saret EXCEPT !.op = "terminate", !.val = TerminateReason(sa)]
    /\ UNCHANGED <<sa, saphase, nbuilt, sastate, counts, sarun>>
    /\ SAFrame

\* ------------------------------- two threads, each with a clone of the pipeline

Threads == {1, 2}

\* The states the threads dispatch.
ThreadStates == {[iter |-> 0, best |-> TRUE], [iter |-> 1, best |-> FALSE]}

IdleThread == [pc |-> "idle", op |-> "none", st |-> [iter |-> 0, best |-> TRUE],
               k |-> 0, res |-> "Ok", name |-> ""]

\* No thread dispatches (the sequential specifications).
ConcIdle ==
    /\ thr = [t \in Threads |-> IdleThread]
    /\ holder = <<>>
    /\ poisoned = {}

\* The Vec after pushing the modes ms, one after the other, on Observers::new().
RECURSIVE Pushed(_)
Pushed(ms) ==
    IF ms = <<>> THEN <<>>
    ELSE PushVec(Pushed(SubSeq(ms, 1, Len(ms) - 1)), ms[Len(ms)])

Pipelines ==
    UNION {{Pushed(ms) : ms \in [1..n -> ObserverMode]} : n \in 1..MaxObs}

\* #[derive(Clone)] on Observers: the clones' Vecs hold the same Arc<Mutex<..>>s,
\* so the threads share the observer objects and their mutexes.
ConcInit ==
    /\ observers \in Pipelines
    /\ stor = [i \in 1..Len(observers) |-> NewStor]
    /\ state = [iter |-> 0, best |-> TRUE]
    /\ ret = [op |-> "new", val |-> "Ok"]
    /\ trace = <<>>
    /\ ihist = <<>>
    /\ inits = <<>>
    /\ thr = [t \in Threads |-> IdleThread]
    /\ holder = [i \in 1..Len(observers) |-> 0]
    /\ poisoned = {}
    /\ SAIdle

\* What a dispatching thread leaves alone: the Vec of its clone, and the rest.
ConcFrame == UNCHANGED <<observers, state, ret, trace, ihist, inits, saVars>>

MutexFreeUnguarded(id) == TRUE

\* Mutex::lock blocks while another thread holds the guard.
MutexFree(id) == holder[id] = 0

\* A thread calls observe_init(name, kv) on its clone.
StartInit(t, name) ==
    /\ thr[t].pc = "idle"
    /\ thr' = [thr EXCEPT ![t] = [@ EXCEPT !.pc = "lock", !.op = "observe_init",
                                            !.k = 1, !.name = name]]
    /\ UNCHANGED <<holder, poisoned, stor>>
    /\ ConcFrame

\* A thread calls observe_iter(state, kv) on its clone.
StartIter(t, st) ==
    /\ thr[t].pc = "idle"
    /\ thr' = [thr EXCEPT ![t] = [@ EXCEPT !.pc = "lock", !.op = "observe_iter",
                                            !.k = 1, !.st = st]]
    /\ UNCHANGED <<holder, poisoned, stor>>
    /\ ConcFrame

\* l.0.lock().unwrap(): the thread gets the guard of the k-th observer; unwrap
\* panics on a poisoned mutex. In observe_iter the match on the mode follows, with
\* the guard held: iter % 0 panics, which poisons the mutex as the guard is dropped.
Lock(t) ==
    LET id == observers[thr[t].k].id
        g == IF thr[t].op = "observe_init" THEN "call"
             ELSE Gate(observers[thr[t].k].mode, thr[t].st)
    IN  /\ thr[t].pc = "lock"
        /\ MutexFree(id)
        /\ IF id \in poisoned
           THEN /\ thr' = [thr EXCEPT ![t].pc = "panicked"]
                /\ UNCHANGED <<holder, poisoned>>
           ELSE IF g = "panic"
           THEN /\ thr' = [thr EXCEPT ![t].pc = "panicked"]
                /\ poisoned' = poisoned \cup {id}
                /\ UNCHANGED holder
           ELSE /\ thr' = [thr EXCEPT ![t].pc = IF g = "call" THEN "call" ELSE "unlock",
                                      ![t].res = "Ok"]
                /\ holder' = [holder EXCEPT ![id] = t]
                /\ UNCHANGED poisoned
        /\ UNCHANGED stor
        /\ ConcFrame

\* The observer's callback runs, under the guard, and returns res.
Call(t, res) ==
    LET id == observers[thr[t].k].id
    IN  /\ thr[t].pc = "call"
        /\ stor' = [stor EXCEPT ![id] = IF thr[t].op = "observe_init"
                                        THEN CallInit(@, thr[t].name) ELSE CallIter(@)]
        /\ thr' = [thr EXCEPT ![t].pc = "unlock", ![t].res = res]
        /\ UNCHANGED <<holder, poisoned>>
        /\ ConcFrame

\* The guard is dropped at the end of the loop body; `?` returns an Err, else the
\* loop goes on to the next observer.
Unlock(t) ==
    LET id == observers[thr[t].k].id
    IN  /\ thr[t].pc = "unlock"
        /\ holder' = [holder EXCEPT ![id] = 0]
        /\ thr' = [thr EXCEPT ![t] =
                     IF thr[t].res = "Err" \/ thr[t].k = Len(observers)
                     THEN [@ EXCEPT !.pc = "done"]
                     ELSE [@ EXCEPT !.pc = "lock", !.k = @ + 1]]
        /\ UNCHANGED <<poisoned, stor>>
        /\ ConcFrame

ConcNext ==
    \E t \in Threads :
        \/ \E name \in SolverNames : StartInit(t, name)
        \/ \E st \in ThreadStates : StartIter(t, st)
        \/ Lock(t)
        \/ \E res \in {"Ok", "Err"} : Call(t, res)
        \/ Unlock(t)

\* ------------------------------------------- what the claims speak about

\* The mode fires on the state: Always, Every(N) with iter mod N = 0, NewBest on a best.
Eligible(mode, st) ==
    \/ mode.kind = "Always"
    \/ mode.kind = "Every" /\ mode.n >= 1 /\ st.iter % mode.n = 0
    \/ mode.kind = "NewBest" /\ st.best

\* The dispatch h got as far as the observer at position i: no observer before it
\* returned an error, and none before it made the dispatch panic.
ReachedBy(i, h) ==
    /\ h.err = 0 \/ i <= h.err
    /\ \A j \in 1..(i - 1) : observers[j].mode # Every(0)

\* The observe_init call h got as far as the observer at position i.
InitReachedBy(i, h) == h.err = 0 \/ i <= h.err

Positions == 1..Len(observers)

\* No registration of the pipeline has the mode Every(0).
NoEveryZero == \A i \in Positions : observers[i].mode # Every(0)

IterCalled(i) == stor[observers[i].id].iter_called

InitCalled(i) == stor[observers[i].id].init_called

\* How often id occurs in the calls of the last dispatch.
TimesCalled(id) == Cardinality({c \in 1..Len(trace) : trace[c] = id})

\* The calls the observer at position i is due, by the history of the dispatches.
DueCalls(i) ==
    Cardinality({d \in 1..Len(ihist) :
        ReachedBy(i, ihist[d]) /\ Eligible(observers[i].mode, ihist[d].st)})

LastIter == ihist[Len(ihist)]

LastInit == inits[Len(inits)]

\* ceil(k / n)
Ceil(k, n) == (k + n - 1) \div n

\* The dispatches so far were those of the iterations 0, 1, ..., K-1, one each.
Consecutive == \A d \in 1..Len(ihist) : ihist[d].st.iter = d - 1

\* ----------------------------------------------------------------------- C1

\* C1 (as amended): in every observe_iter dispatch an observer that is reached is
\* invoked, once, iff its mode is Always, or Every(N) with iter mod N = 0, or NewBest
\* with is_best(); a Never observer has received no call; a NewBest observer has
\* received one call per dispatch whose state was a best AND in which it was reached.
C1_GatedDispatch ==
    /\ ret.op = "observe_iter" =>
         \A i \in Positions :
            /\ ReachedBy(i, LastIter) =>
                 TimesCalled(observers[i].id) =
                    (IF Eligible(observers[i].mode, LastIter.st) THEN 1 ELSE 0)
            /\ ~ReachedBy(i, LastIter) => TimesCalled(observers[i].id) = 0
    /\ \A i \in Positions :
         /\ observers[i].mode = Never => IterCalled(i) = 0
         /\ observers[i].mode = NewBest =>
              IterCalled(i) = Cardinality({d \in 1..Len(ihist) :
                                 ihist[d].st.best /\ ReachedBy(i, ihist[d])})

\* C1 as stated, taken over the pipelines that hold no Every(0): a NewBest observer
\* has one call per dispatch whose state was a best.
C1_Original ==
    \A i \in Positions :
        (NoEveryZero /\ observers[i].mode = NewBest) =>
            IterCalled(i) = Cardinality({d \in 1..Len(ihist) : ihist[d].st.best})

\* A NewBest observer behind an Always one: three dispatches of best states, the
\* first of them the iteration 0; it was reached, and called, in two.
C1_Witness ==
    /\ Len(observers) = 2
    /\ observers[1].mode = Always /\ observers[2].mode = NewBest
    /\ Len(ihist) = 3
    /\ \A d \in 1..3 : ihist[d].st.best
    /\ ihist[1].st.iter = 0 /\ ihist[1].err = 0
    /\ ihist[2].err = 1
    /\ IterCalled(2) = 2

\* ----------------------------------------------------------------------- C2

\* C2 (as amended): an Always observer has received as many observe_iter calls as
\* there were observe_iter invocations on the pipeline in which it was reached.
C2_AlwaysCount ==
    \A i \in Positions :
        observers[i].mode = Always =>
            IterCalled(i) = Cardinality({d \in 1..Len(ihist) : ReachedBy(i, ihist[d])})

\* C2 as stated, taken over the pipelines that hold no Every(0): as many calls as
\* observe_iter invocations on the pipeline.
C2_Original ==
    \A i \in Positions :
        (NoEveryZero /\ observers[i].mode = Always) => IterCalled(i) = Len(ihist)

\* Two Always observers, three invocations, the first observer failing in one.
C2_Witness ==
    /\ Len(observers) = 2
    /\ observers[1].mode = Always /\ observers[2].mode = Always
    /\ Len(ihist) = 3
    /\ IterCalled(1) = 3 /\ IterCalled(2) = 2

\* ----------------------------------------------------------------------- C3

C4_ErrorStopsDispatch ==
    /\ (ret.op = "observe_iter" /\ LastIter.err # 0) =>
         /\ ret.val = "Err"
         /\ trace[Len(trace)] = observers[LastIter.err].id
         /\ \A i \in Positions :
              /\ i > LastIter.err => TimesCalled(observers[i].id) = 0
              /\ (i < LastIter.err /\ Eligible(observers[i].mode, LastIter.st))
                   => TimesCalled(observers[i].id) = 1
    /\ (ret.op = "observe_iter" /\ ret.val = "Err") => LastIter.err # 0
    /\ \A i \in Positions : IterCalled(i) = DueCalls(i)

\* Two Always observers; the first fails in the third dispatch: it has three calls,
\* the one behind it two.
C4_Witness ==
    /\ Len(observers) = 2
    /\ observers[1].mode = Always /\ observers[2].mode = Always
    /\ Len(ihist) = 3
    /\ ihist[1].err = 0 /\ ihist[2].err = 0 /\ ihist[3].err = 1
    /\ ret = [op |-> "observe_iter", val |-> "Err"]
    /\ IterCalled(1) = 3 /\ IterCalled(2) = 2

\* ----------------------------------------------------------------------- C5

\* C5: the Vec holds the observers in the order of their pushes (push appends, it
\* neither reorders nor removes), and every observe_init and observe_iter call
\* invokes the observers it invokes in that order, one after the other.
C5_InsertionOrder ==
    /\ \A i \in Positions : observers[i].id = i
    /\ \A a, b \in 1..Len(trace) : a < b => trace[a] < trace[b]

\* Both observers were announced the solver, then both were dispatched the state,
\* the first pushed first.
C5_Witness ==
    /\ Len(observers) = 2
    /\ InitCalled(1) = 1 /\ InitCalled(2) = 1
    /\ ret.op = "observe_iter"
    /\ trace = <<1, 2>>

\* ----------------------------------------------------------------------- C6

\* C6 as stated: no pipeline holds a registration with the mode Every(0), and no
\* observe_iter dispatch evaluates iter mod 0.
C6_EveryZeroRejected ==
    /\ NoEveryZero
    /\ ret.val # "panic"

\* ----------------------------------------------------------------------- C7

\* C7 (as amended): a call observe_init(name, kv) invokes observe_init once, with
\* that name, on every registered observer up to and including the first whose
\* observe_init returns an error (on all of them when none does), whatever their
\* modes, and invokes no observe_iter.
C7_InitDispatch ==
    /\ ret.op = "observe_init" =>
         \A i \in Positions :
            /\ TimesCalled(observers[i].id) = (IF InitReachedBy(i, LastInit) THEN 1 ELSE 0)
            /\ InitReachedBy(i, LastInit)
                 => stor[observers[i].id].solver_name = LastInit.name
    /\ \A i \in Positions :
         /\ InitCalled(i) = Cardinality({d \in 1..Len(inits) : InitReachedBy(i, inits[d])})
         /\ IterCalled(i) = DueCalls(i)

\* C7 as stated: every observe_init call invokes every registered observer once.
C7_Original ==
    \A i \in Positions : InitCalled(i) = Len(inits)

\* A Never observer that was announced the solver, and failed; the one behind it
\* was not.
C7_Witness ==
    /\ Len(observers) = 2
    /\ observers[1].mode = Never
    /\ ret = [op |-> "observe_init", val |-> "Err"]
    /\ stor[1].solver_name = "test_solver" /\ InitCalled(1) = 1
    /\ stor[2].solver_name = "" /\ InitCalled(2) = 0


\* ----------------------------------------------------------------------- C8

\* The thread holds the guard of the observer it is at.
InGuard(t) == thr[t].pc \in {"call", "unlock"}

\* Some thread's dispatch is not over.
Dispatching == \E t \in Threads : thr[t].pc \in {"lock", "call", "unlock"}

\* A step of thread t inside its dispatch.
ThreadStep(t) == Lock(t) \/ (\E res \in {"Ok", "Err"} : Call(t, res)) \/ Unlock(t)

\* C8: with two threads dispatching on clones of one pipeline, no two threads are
\* ever in the callbacks of the same observer; a thread holds the guard of the
\* observer it is at and no other, and none while it waits for a guard; and while
\* a dispatch is under way some thread can take a step (no deadlock).
C8_MutexDiscipline ==
    /\ \A t, u \in Threads :
         (t # u /\ InGuard(t) /\ InGuard(u)) => thr[t].k # thr[u].k
    /\ \A t \in Threads, i \in 1..Len(observers) :
         holder[i] = t <=> (InGuard(t) /\ observers[thr[t].k].id = i)
    /\ Dispatching =>
         \E t \in Threads : thr[t].pc \in {"lock", "call", "unlock"} /\ ENABLED ThreadStep(t)
    /\ \A t \in Threads :
         (thr[t].pc = "lock" /\ holder[observers[thr[t].k].id] # 0)
            => InGuard(holder[observers[thr[t].k].id])

\* One thread is in the first observer's callback while the other waits for that
\* observer's guard.
C8_Witness ==
    /\ thr[1].pc = "call" /\ thr[1].k = 1
    /\ thr[2].pc = "lock" /\ thr[2].k = 1
    /\ holder[observers[1].id] = 1

\* ----------------------------------------------------------------------- C9

\* C9: new(init_temp, rng) fails with an InvalidParameter error and leaves no
\* solver when init_temp <= 0; for init_temp > 0 it returns a solver whose
\* current and initial temperature are init_temp, whose temperature function is
\* TemperatureFast, whose counters are all 0 and whose limits are all u64::MAX.
C9_NewChecksInitTemp ==
    saret.op = "new" =>
        IF FLe(saret.arg, F(0))
        THEN saret.val = "InvalidParameter" /\ saphase = "invalid" /\ sa = NoSolver
        ELSE /\ saret.val = "Ok"
             /\ saphase = "built"
             /\ sa.init_temp = saret.arg
             /\ sa.cur_temp = saret.arg
             /\ sa.temp_func = TemperatureFast
             /\ \A f \in {"temp_iter", "stall_iter_accepted", "stall_iter_best",
                          "reanneal_iter_fixed", "reanneal_iter_accepted",
                          "reanneal_iter_best"} : sa[f] = 0
             /\ \A f \in {"stall_iter_accepted_limit", "stall_iter_best_limit",
                          "reanneal_fixed", "reanneal_accepted", "reanneal_best"} :
                    sa[f] = U64_MAX

\* new was called with init_temp = 0, the largest value it rejects.
C9_Witness ==
    saret.op = "new" /\ saret.arg = F(0) /\ saret.val = "InvalidParameter"

\* ---------------------------------------------------------------------- C10

\* C10: terminate returns AcceptedStallIterExceeded when stall_iter_accepted is
\* strictly above its limit, otherwise BestStallIterExceeded when stall_iter_best
\* is strictly above its limit, otherwise NotTerminated: with both limits
\* exceeded the accepted one wins, and a counter equal to its limit does not
\* terminate the run.
C10_TerminateReason ==
    saret.op = "terminate" =>
        /\ sa.stall_iter_accepted > sa.stall_iter_accepted_limit
                => saret.val = "AcceptedStallIterExceeded"
        /\ (sa.stall_iter_accepted <= sa.stall_iter_accepted_limit
                /\ sa.stall_iter_best > sa.stall_iter_best_limit)
                => saret.val = "BestStallIterExceeded"
        /\ (sa.stall_iter_accepted <= sa.stall_iter_accepted_limit
                /\ sa.stall_iter_best <= sa.stall_iter_best_limit)
                => saret.val = "NotTerminated"

\* terminate was called with both counters above their limits.
C10_Witness ==
    /\ saret.op = "terminate"
    /\ sa.stall_iter_accepted > sa.stall_iter_accepted_limit
    /\ sa.stall_iter_best > sa.stall_iter_best_limit
    /\ saret.val = "AcceptedStallIterExceeded"

\* ---------------------------------------------------------------------- C11

\* C11: with stall_accepted(L) configured, stall_best left at its default and no
\* candidate accepted in the run, terminate returns NotTerminated after each of
\* the first L successful next_iter calls and AcceptedStallIterExceeded after the
\* (L+1)-th, whatever the reanneal triggers are and however often they fired.
C11_StallAcceptedTerminates ==
    (/\ saret.op = "terminate"
     /\ sarun.nacc = 0
     /\ sa.stall_iter_accepted_limit \in LimitArgs
     /\ sa.stall_iter_best_limit = U64_MAX)
        => saret.val = IF sarun.n <= sa.stall_iter_accepted_limit
                       THEN "NotTerminated"
                       ELSE "AcceptedStallIterExceeded"

\* terminate after the third of three rejecting iterations under
\* stall_accepted(2), with a reanneal event in the run.
C11_Witness ==
    /\ saret.op = "terminate"
    /\ sarun.nacc = 0
    /\ sarun.nre > 0
    /\ sa.stall_iter_accepted_limit = 2
    /\ sa.stall_iter_best_limit = U64_MAX
    /\ sarun.n = 3
    /\ saret.val = "AcceptedStallIterExceeded"

\* ---------------------------------------------------------------------- C12

\* C12: after N successful next_iter calls on a freshly constructed solver, in
\* none of which a candidate was accepted or a reanneal trigger fired,
\* stall_iter_accepted = N and stall_iter_best = N.
C12_StallCountersCount ==
    (saphase \in {"running", "aborted"} /\ sarun.nacc = 0 /\ sarun.nre = 0)
        => sa.stall_iter_accepted = sarun.n /\ sa.stall_iter_best = sarun.n

\* Three iterations, no candidate accepted, no reanneal.
C12_Witness ==
    /\ saphase = "running"
    /\ sarun = [n |-> 3, nacc |-> 0, nre |-> 0]
    /\ sa.stall_iter_accepted = 3
    /\ sa.stall_iter_best = 3

\* ---------------------------------------------------------------------- C13

\* The last call was a successful next_iter, the k-th of the run, on a solver
\* whose only configured reanneal trigger is reannealing_fixed(5).
FixedOnlyAfter(k) ==
    /\ saret.op = "next_iter"
    /\ saret.val = "Ok"
    /\ sarun.n = k
    /\ sa.reanneal_fixed = 5
    /\ sa.reanneal_accepted = U64_MAX
    /\ sa.reanneal_best = U64_MAX

\* C13 (as amended): with reannealing_fixed(5) on a freshly constructed solver
\* and no other trigger, the first call that reports ra_fi = true is the sixth
\* (the k-th call compares k - 1 with 5); that call leaves temp_iter = 1 and the
\* temperature the schedule gives for temp_iter = 1, not init_temp.
C13_FixedReannealAtSixth ==
    \A k \in 1..6 :
        FixedOnlyAfter(k) =>
            /\ saret.kv.ra_fi <=> k = 6
            /\ ~saret.kv.ra_ac /\ ~saret.kv.ra_be
            /\ k = 6 => /\ sa.temp_iter = 1
                        /\ sa.reanneal_iter_fixed = 1
                        /\ sa.cur_temp = FDivInt(sa.init_temp, 2)
                        /\ saret.kv.t = FDivInt(sa.init_temp, 2)
            /\ k < 6 => sa.temp_iter = k /\ sa.reanneal_iter_fixed = k

\* C13 as stated: the fifth call reports ra_fi = true.
C13_Original == FixedOnlyAfter(5) => saret.kv.ra_fi

\* The sixth call under reannealing_fixed(5) has reported ra_fi.
C13_Witness == FixedOnlyAfter(6) /\ saret.kv.ra_fi /\ sa.temp_iter = 1

\* ---------------------------------------------------------------------- C14

\* The step is a successful next_iter call.
NextIterStep == sarun'.n = sarun.n + 1

\* The temperature the schedule of s gives for temp_iter = k.
Schedule(s, k) == UpdateTemperature([s EXCEPT !.temp_iter = k]).cur_temp

\* The solver s at the instant of a reanneal event.
AtReanneal(s) ==
    /\ s.cur_temp = s.init_temp
    /\ s.temp_iter = 0
    /\ s.reanneal_iter_fixed = 0
    /\ s.reanneal_iter_accepted = 0
    /\ s.reanneal_iter_best = 0

\* C14: in every next_iter call the reanneal action is performed iff one of the
\* three triggers holds after the counter update of the call; at the event
\* cur_temp = init_temp, temp_iter = 0 and the three reanneal_iter_* are 0 (so
\* the call ends with temp_iter = 1, reanneal_iter_fixed = 1 and the schedule's
\* temperature for 1); with no trigger the reanneal step changes nothing.
C14_ReannealIffTrigger ==
    /\ [](saphase = "running" =>
            \A accepted, new_best \in BOOLEAN :
                LET s1 == UpdateStallAndReannealIter(sa, accepted, new_best)
                    r == Reanneal(s1)
                    trig == \/ s1.reanneal_iter_fixed >= s1.reanneal_fixed
                            \/ s1.reanneal_iter_accepted >= s1.reanneal_accepted
                            \/ s1.reanneal_iter_best >= s1.reanneal_best
                IN  /\ (r.out[1] \/ r.out[2] \/ r.out[3]) <=> trig
                    /\ IF trig
                       THEN /\ AtReanneal(r.sa)
                            /\ r.sa = [s1 EXCEPT !.cur_temp = s1.init_temp,
                                                 !.temp_iter = 0,
                                                 !.reanneal_iter_fixed = 0,
                                                 !.reanneal_iter_accepted = 0,
                                                 !.reanneal_iter_best = 0]
                       ELSE r.sa = s1)
    /\ [][NextIterStep =>
            LET ia == IF saret'.kv.acc THEN 0 ELSE sa.reanneal_iter_accepted + 1
                ib == IF saret'.kv.new_be THEN 0 ELSE sa.reanneal_iter_best + 1
                fi == sa.reanneal_iter_fixed >= sa.reanneal_fixed
                ac == ia >= sa.reanneal_accepted
                be == ib >= sa.reanneal_best
            IN  /\ saret'.kv.ra_fi = fi
                /\ saret'.kv.ra_ac = ac
                /\ saret'.kv.ra_be = be
                /\ IF fi \/ ac \/ be
                   THEN /\ sa'.temp_iter = 1
                        /\ sa'.reanneal_iter_fixed = 1
                        /\ sa'.reanneal_iter_accepted = 0
                        /\ sa'.reanneal_iter_best = 0
                        /\ sa'.cur_temp = Schedule(sa, 1)
                   ELSE /\ sa'.temp_iter = sa.temp_iter + 1
                        /\ sa'.reanneal_iter_fixed = sa.reanneal_iter_fixed + 1
                        /\ sa'.reanneal_iter_accepted = ia
                        /\ sa'.reanneal_iter_best = ib
                        /\ sa'.cur_temp = Schedule(sa, sa.temp_iter + 1)]_vars

\* The third call of a run fired the accepted trigger alone: temp_iter is back
\* at 1.
C14_Witness ==
    /\ saret.op = "next_iter"
    /\ saret.val = "Ok"
    /\ sarun.n = 3
    /\ saret.kv.ra_ac /\ ~saret.kv.ra_fi /\ ~saret.kv.ra_be
    /\ sa.temp_iter = 1
    /\ sa.reanneal_iter_accepted = 0

\* ---------------------------------------------------------------------- C15

\* The call of the step reported a reanneal event.
ReannealedStep == saret'.kv.ra_fi \/ saret'.kv.ra_ac \/ saret'.kv.ra_be

IterCounters ==
    {"temp_iter", "stall_iter_accepted", "stall_iter_best",
     "reanneal_iter_fixed", "reanneal_iter_accepted", "reanneal_iter_best"}

\* C15 (as amended): across a next_iter call, temp_iter and reanneal_iter_fixed
\* grow by one without a reanneal event and are reset to zero by one (the call
\* ends with them at 1); reanneal_iter_accepted and reanneal_iter_best are zero
\* after a reanneal event, and without one are zero after an accepted candidate
\* (a new best) and one more otherwise; stall_iter_accepted and stall_iter_best
\* are not reset by a reanneal event: they are zero after an accepted candidate
\* (a new best) and one more otherwise. No other call changes a counter.
C15_CounterSteps ==
    [][IF NextIterStep
       THEN /\ sa'.stall_iter_accepted =
                    IF saret'.kv.acc THEN 0 ELSE sa.stall_iter_accepted + 1
            /\ sa'.stall_iter_best =
                    IF saret'.kv.new_be THEN 0 ELSE sa.stall_iter_best + 1
            /\ IF ReannealedStep
               THEN /\ sa'.temp_iter = 1
                    /\ sa'.reanneal_iter_fixed = 1
                    /\ sa'.reanneal_iter_accepted = 0
                    /\ sa'.reanneal_iter_best = 0
               ELSE /\ sa'.temp_iter = sa.temp_iter + 1
                    /\ sa'.reanneal_iter_fixed = sa.reanneal_iter_fixed + 1
                    /\ sa'.reanneal_iter_accepted =
                            IF saret'.kv.acc THEN 0 ELSE sa.reanneal_iter_accepted + 1
                    /\ sa'.reanneal_iter_best =
                            IF saret'.kv.new_be THEN 0 ELSE sa.reanneal_iter_best + 1
       ELSE saphase \in {"running", "aborted"} =>
                \A f \in IterCounters : sa'[f] = sa[f]]_vars

\* C15 as stated: between reanneal events no counter decreases across a
\* next_iter call, and a call with a reanneal event resets every counter (the
\* two the call increments afterwards end at 1, the other four at 0).
C15_Original ==
    [][NextIterStep =>
        IF ReannealedStep
        THEN /\ sa'.temp_iter = 1
             /\ sa'.reanneal_iter_fixed = 1
             /\ sa'.reanneal_iter_accepted = 0
             /\ sa'.reanneal_iter_best = 0
             /\ sa'.stall_iter_accepted = 0
             /\ sa'.stall_iter_best = 0
        ELSE \A f \in IterCounters : sa'[f] >= sa[f]]_vars

\* A call with a reanneal event has left stall_iter_accepted at 2.
C15_Witness ==
    /\ saret.op = "next_iter"
    /\ saret.val = "Ok"
    /\ saret.kv.ra_fi \/ saret.kv.ra_ac \/ saret.kv.ra_be
    /\ sa.stall_iter_accepted = 2
    /\ sa.reanneal_iter_accepted = 0

\* ---------------------------------------------------------------------- C16

\* The step is a next_iter call that got as far as problem.anneal.
AnnealStep == counts'.anneal_count = counts.anneal_count + 1

\* C16: problem.anneal is handed init_temp in the first next_iter call and, in
\* every later call, the temperature computed at the end of the call before (its
\* KV entry t); under TemperatureFast with no reanneal the temperature after n
\* iterations is init_temp / (n + 1): init_temp / 2 after the first, init_temp / 3
\* after the second.
C16_AnnealTemperature ==
    /\ [][AnnealStep =>
            saret'.arg = IF counts.anneal_count = 0 THEN sa.init_temp ELSE saret.kv.t]_vars
    /\ []((saphase = "running" /\ sa.temp_func = TemperatureFast /\ sarun.nre = 0)
            => sa.cur_temp = Rat(sa.init_temp.num, sa.init_temp.den * (sarun.n + 1)))

\* The third call of a run without reanneal handed 10 / 3 to anneal.
C16_Witness ==
    /\ saret.op = "next_iter"
    /\ saret.val = "Ok"
    /\ sarun.n = 3
    /\ sarun.nre = 0
    /\ sa.temp_func = TemperatureFast
    /\ sa.init_temp = F(10)
    /\ saret.arg = Rat(10, 3)

\* ---------------------------------------------------------------------- C17

\* C17: every successful next_iter call takes exactly one sample from the RNG,
\* whatever the candidate's cost, and no other call takes any: the RNG has
\* advanced by the number of successful iterations.
C17_OneSamplePerIteration ==
    saphase \in {"built", "running", "aborted"} => sa.rng = sarun.n

\* terminate after two iterations, the second of which found a new best (so
\* new_cost < prev_cost decided its acceptance): two samples are gone.
C17_Witness ==
    /\ saret.op = "terminate"
    /\ sarun.n = 2
    /\ saret.kv.new_be
    /\ sa.rng = 2

\* ---------------------------------------------------------------------- C18

\* The change of Problem.counts across the step.
Counted(cost, anneal) ==
    counts' = [cost_count |-> counts.cost_count + cost,
               anneal_count |-> counts.anneal_count + anneal]

\* C18: cost_count and anneal_count count the invocations of the cost function
\* and of anneal, failed ones too: init adds 1 to cost_count only, a successful
\* next_iter 1 to each, a next_iter in which anneal fails 1 to anneal_count only,
\* a next_iter in which cost fails 1 to each; nothing else counts.
C18_EvaluationCounts ==
    /\ [][CASE saphase = "built" /\ saphase' # "built" -> Counted(1, 0)
            [] NextIterStep -> Counted(1, 1)
            [] saphase = "running" /\ saphase' = "aborted"
                    /\ saret'.val = "AnnealError" -> Counted(0, 1)
            [] saphase = "running" /\ saphase' = "aborted"
                    /\ saret'.val = "CostError" -> Counted(1, 1)
            [] OTHER -> Counted(0, 0)]_vars
    /\ [](saphase = "running" =>
            counts = [cost_count |-> sarun.n + 1, anneal_count |-> sarun.n])

\* init, one successful iteration, then an iteration in which anneal failed.
C18_Witness ==
    /\ saphase = "aborted"
    /\ saret.val = "AnnealError"
    /\ sarun.n = 1
    /\ counts = [cost_count |-> 2, anneal_count |-> 2]

\* ---------------------------------------------------------------------- C19

\* C19: a successful next_iter accepts every candidate with new_cost < prev_cost
\* and returns the state it was handed with (param, cost) set to
\* (new_param, new_cost) if the candidate was accepted and to
\* (prev_param, prev_cost) otherwise: iter, last_best_iter and best_cost are as
\* they were handed in.
C19_ReturnedState ==
    [][NextIterStep =>
        LET new_param == saret'.cand
            new_cost == Cost(new_param)
        IN  /\ FLt(new_cost, sastate.cost) => saret'.kv.acc
            /\ saret'.state =
                    IF saret'.kv.acc
                    THEN [param |-> new_param, cost |-> new_cost,
                          best_cost |-> sastate.best_cost, iter |-> sastate.iter,
                          last_best_iter |-> sastate.last_best_iter]
                    ELSE sastate]_vars

\* The second call rejected a candidate other than the current parameter vector.
C19_Witness ==
    /\ saret.op = "next_iter"
    /\ saret.val = "Ok"
    /\ ~saret.kv.acc
    /\ saret.cand # saret.state.param
    /\ saret.state.iter = 1

\* ---------------------------------------------------------------------- C20

\* The step is a next_iter call that returned an error.
FailedStep == saphase = "running" /\ saphase' = "aborted"

\* C20: when problem.anneal or problem.cost fails inside next_iter, next_iter
\* returns that error and the solver is exactly as before the call (cur_temp,
\* temp_iter, the stall and reanneal counters, the RNG position), so terminate
\* answers as it would have before the call.
C20_ErrorLeavesSolver ==
    /\ [][FailedStep =>
            /\ saret'.op = "next_iter"
            /\ saret'.val \in {"AnnealError", "CostError"}
            /\ sa' = sa
            /\ TerminateReason(sa') = TerminateReason(sa)]_vars
    /\ []((saphase = "aborted" /\ saret.op = "terminate")
            => saret.val = TerminateReason(sa) /\ sa.rng = sarun.n)

\* terminate after a next_iter in which cost failed, the third call of a run
\* that stalled twice under stall_accepted(1).
C20_Witness ==
    /\ saphase = "aborted"
    /\ saret.op = "terminate"
    /\ counts = [cost_count |-> 4, anneal_count |-> 3]
    /\ sa.stall_iter_accepted = 2
    /\ sa.stall_iter_accepted_limit = 1
    /\ saret.val = "AcceptedStallIterExceeded"

\* ---------------------------------------------------------------------- C21

\* The fields new and the builders set.
ConfigFields ==
    {"init_temp", "temp_func", "stall_iter_accepted_limit", "stall_iter_best_limit",
     "reanneal_fixed", "reanneal_accepted", "reanneal_best"}

\* C21: init and terminate leave every field of the solver as it is, only a
\* successful next_iter changes the solver once it is built and configured, and
\* no next_iter changes init_temp, temp_func or one of the five limits.
C21_OnlyNextIterMutates ==
    [][/\ (saphase = "built" /\ saphase' # "built") => sa' = sa
       /\ saret'.op = "terminate" => sa' = sa
       /\ (saphase \in {"running", "aborted"} /\ sa' # sa) => NextIterStep
       /\ AnnealStep => \A f \in ConfigFields : sa'[f] = sa[f]]_vars

\* terminate after two iterations on a solver with a configured limit: the
\* counters and the limit are as the second iteration left them.
C21_Witness ==
    /\ saret.op = "terminate"
    /\ saphase = "running"
    /\ sa.temp_iter = 2
    /\ sa.rng = 2
    /\ sa.stall_iter_accepted = 2
    /\ sa.stall_iter_accepted_limit = 1
    /\ sa.init_temp = F(10)

\* ---------------------------------------------------------------------- C22

\* The last call was a successful next_iter that reported a reanneal event.
Reannealed ==
    /\ saret.op = "next_iter"
    /\ saret.val = "Ok"
    /\ saret.kv.ra_fi \/ saret.kv.ra_ac \/ saret.kv.ra_be

\* C22: temp_iter = reanneal_iter_fixed in every state of the solver; after a
\* successful next_iter both are >= 1, and exactly 1 after a call with a reanneal
\* event; so every recomputation of the temperature uses k = temp_iter + 1 >= 2,
\* and the Boltzmann schedule never divides by ln(1) = 0.
C22_TempIterIsFixedIter ==
    saphase \in {"built", "running", "aborted"} =>
        /\ sa.temp_iter = sa.reanneal_iter_fixed
        /\ sarun.n >= 1 => sa.temp_iter >= 1
        /\ Reannealed => sa.temp_iter = 1
        /\ sa.cur_temp.kind # "inf"
        /\ (sa.temp_func = Boltzmann /\ sarun.n >= 1)
                => sa.cur_temp = FDivLn(sa.init_temp, sa.temp_iter + 1)
                        /\ sa.cur_temp.k >= 2

\* Under Boltzmann the third call of a run had a reanneal event: the temperature
\* is init_temp / ln(2).
C22_Witness ==
    /\ Reannealed
    /\ sarun.n = 3
    /\ sa.temp_func = Boltzmann
    /\ sa.temp_iter = 1
    /\ sa.reanneal_iter_fixed = 1
    /\ sa.cur_temp.k = 2

\* ---------------------------------------------------------------------- C23

\* The next_iter call before this one was successful and reported a reanneal
\* event (terminate keeps the KV of that call).
PrevReannealed ==
    /\ saphase = "running"
    /\ sarun.n >= 1
    /\ saret.kv.ra_fi \/ saret.kv.ra_ac \/ saret.kv.ra_be

\* C23 (as amended): in the next_iter call after a call with a reanneal event,
\* problem.anneal is handed the schedule's value for temp_iter = 1 (init_temp / 2
\* under TemperatureFast), as in the second call of the run: the
\* cur_temp = init_temp of the reanneal action is overwritten before any anneal
\* call. After the first call anneal is handed init_temp only where the
\* schedule's value equals it: never under TemperatureFast and Boltzmann, and
\* under Exponential(x) exactly when x^(temp_iter + 1) = 1, as with x = 1.
C23_TemperatureAfterReanneal ==
    [][/\ (AnnealStep /\ (PrevReannealed \/ counts.anneal_count = 1)) =>
            /\ saret'.arg = Schedule(sa, 1)
            /\ sa.temp_func = TemperatureFast => saret'.arg = FDivInt(sa.init_temp, 2)
       /\ (AnnealStep /\ counts.anneal_count >= 1) =>
            IF sa.temp_func.kind = "Exponential"
            THEN saret'.arg = sa.init_temp
                    <=> FPow(sa.temp_func.x, sa.temp_iter + 1) = F(1)
            ELSE saret'.arg # sa.init_temp]_vars

\* C23 as stated: the call after a reanneal event, and every call but the
\* first, hands anneal a temperature other than init_temp.
C23_Original ==
    [][/\ (AnnealStep /\ PrevReannealed) =>
            saret'.arg = Schedule(sa, 1) /\ saret'.arg # sa.init_temp
       /\ (AnnealStep /\ counts.anneal_count >= 1) => saret'.arg # sa.init_temp]_vars

\* Under TemperatureFast with init_temp = 10 the second call had a reanneal
\* event and the third handed 5 to anneal.
C23_Witness ==
    /\ saret.op = "next_iter"
    /\ saret.val = "Ok"
    /\ sarun.n = 3
    /\ sarun.nre >= 1
    /\ sa.temp_iter = 2
    /\ sa.temp_func = TemperatureFast
    /\ sa.init_temp = F(10)
    /\ saret.arg = F(5)

\* ---------------------------------------------------------------------- C24

\* C24: while every state handed to next_iter has best_cost <= cost, a new best
\* is accepted in the same iteration, so stall_iter_accepted <= stall_iter_best
\* and reanneal_iter_accepted <= reanneal_iter_best after every sequence of
\* successful next_iter calls; with equal stall limits terminate returns
\* BestStallIterExceeded only with stall_iter_accepted within its limit.
C24_AcceptedBelowBest ==
    /\ [](saphase = "running" => FLe(sastate.best_cost, sastate.cost))
    /\ [][(NextIterStep /\ saret'.kv.new_be) => saret'.kv.acc]_vars
    /\ [](saphase \in {"built", "running", "aborted"} =>
            /\ sa.stall_iter_accepted <= sa.stall_iter_best
            /\ sa.reanneal_iter_accepted <= sa.reanneal_iter_best)
    /\ []((/\ saret.op = "terminate"
           /\ sa.stall_iter_accepted_limit = sa.stall_iter_best_limit
           /\ saret.val = "BestStallIterExceeded")
            => /\ sa.stall_iter_accepted <= sa.stall_iter_accepted_limit
               /\ sa.stall_iter_best > sa.stall_iter_best_limit)

\* terminate under stall_accepted(1) and stall_best(1) after an iteration
\* accepted without a new best: only the best limit is exceeded.
C24_Witness ==
    /\ saret.op = "terminate"
    /\ saret.val = "BestStallIterExceeded"
    /\ sa.stall_iter_accepted_limit = 1
    /\ sa.stall_iter_best_limit = 1
    /\ sa.stall_iter_accepted < sa.stall_iter_best

\* The pipeline and the threads are not in use (the specification of the solver).
SAStart ==
    /\ observers = <<>>
    /\ stor = <<>>
    /\ state = [iter |-> 0, best |-> TRUE]
    /\ ret = [op |-> "new", val |-> "Ok"]
    /\ trace = <<>>
    /\ ihist = <<>>
    /\ inits = <<>>
    /\ ConcIdle
    /\ SAIdle

\* new(10.0, rng), at most reannealing_fixed(5), init, and MaxLongSteps
\* successful iterations.
LongFixedArgs == {5}

SALongNext ==
    \/ \E init_temp \in InitTemps : New(init_temp)
    \/ \E n \in LongFixedArgs : ReannealingFixed(n)
    \/ \E param \in Params : SolverInit(param, TRUE)
    \/ \E new_param \in Params, u \in Samples : NextIterLong(new_param, u)

SANext ==
    \/ \E init_temp \in InitTemps : New(init_temp)
    \/ \E f \in SATempFunc : TempFunc(f)
    \/ \E n \in LimitArgs : StallAccepted(n)
    \/ \E n \in LimitArgs : StallBest(n)
    \/ \E n \in LimitArgs : ReannealingFixed(n)
    \/ \E n \in LimitArgs : ReannealingAccepted(n)
    \/ \E n \in LimitArgs : ReannealingBest(n)
    \/ \E param \in Params, ok \in BOOLEAN : SolverInit(param, ok)
    \/ NextIterAnnealErr
    \/ NextIterCostErr
    \/ \E new_param \in Params, u \in Samples : NextIter(new_param, u)
    \/ Terminate

\* ---------------------------------------------------------- specifications

Init == ObsInit /\ ConcIdle /\ SAIdle

Next == ObsNext

Spec == Init /\ [][Next]_vars

SpecInit == Init /\ [][ObsInitNext]_vars

SpecConc == ConcInit /\ [][ConcNext]_vars

SpecSA == SAStart /\ [][SANext]_vars

SpecSALong == SAStart /\ [][SALongNext]_vars

====
